---- MODULE Spec2Model ----
(***************************************************************************)
(* Model of the MySmartBike BLE integration: the connection lifecycle of   *)
(* MySmartBikeCoordinator (coordinator.py) and the BikeDataParser          *)
(* (parsers.py) it feeds.                                                  *)
(*                                                                         *)
(* The coordinator's coroutines run on one asyncio loop.  A coroutine runs *)
(* atomically from one suspension (an awaited transport call or sleep) to  *)
(* the next, so every action below is one such run: it starts where an     *)
(* await completes and ends where the next await is issued or the          *)
(* coroutine returns.  pc[t] names the await task t is suspended at, and   *)
(* is "idle" when t is not running and "raised" when t ended in an error   *)
(* that its caller got.                                                    *)
(*                                                                         *)
(* Optional values (None or a value) are sequences of length 0 or 1.       *)
(***************************************************************************)
EXTENDS Integers, Sequences, FiniteSets, TLC

\* Transport sessions (BleakClient objects) that can exist at one time.
MaxSessions == 2

\* Operations (poll tick, reconnect, disconnect, shutdown) the scheduler
\* and the user have in progress at one time.
MaxConcurrent == 2

\* The battery frames counted before the parser is given no more of them.
MaxPackets == 6

\* service_info.rssi of the advertisement the tests use.
RssiSample == -60

VARIABLES
    client,                 \* self._client: 0 is None, else a session id
    is_connected,           \* self._is_connected
    manual_disconnect,      \* self._manual_disconnect
    link,                   \* transport: session id -> "free" | "live" | "lost" | "closed"
    notifying,              \* transport: sessions with notifications started
    pc,                     \* task -> the await it is suspended at, or "idle"
    loc,                    \* task -> the session its pending call was issued on
                            \*         (client_to_cleanup / old_client / self._client)
    unloaded,               \* async_unload_entry has unloaded the platforms
    data,                   \* DataUpdateCoordinator.data: None, or what the
                            \*   last tick or notification published
    tlog,                   \* task -> the teardown calls its current run has issued
    raced,                  \* history: async_disconnect ran while a poll tick's
                            \*          _connect was suspended, no reconnect since
    last_tick,              \* history: what the latest finished poll tick did
    scen,                   \* history: progress through disconnect, poll, reconnect
    serial,                 \* whether each operation ends before the next starts
    state,                  \* BikeDataParser.state
    battery_packet_counter, \* BikeDataParser.battery_packet_counter
    vin,                    \* BikeDataParser.vin
    protocol_version,       \* BikeDataParser.protocol_version
    call,                   \* history: the latest direct call of a parser
                            \*          method, its name and its argument
    ret                     \* history: how that call ended

vars == <<client, is_connected, manual_disconnect, link, notifying, pc, loc,
          unloaded, data, tlog, raced, last_tick, scen, serial, state,
          battery_packet_counter, vin, protocol_version, call, ret>>

parserCache == <<battery_packet_counter, vin, protocol_version>>

Tasks == {"poll", "disc", "recon", "shut"}

Sessions == 1..MaxSessions

None == <<>>

Some(v) == <<v>>

Slots == {"battery_primary", "battery_secondary", "motor", "assist", "ebm"}

\* The dict both BikeDataParser.__init__ and _async_update_data's fallback build.
EmptyState == [k \in Slots |-> None]

\* The exceptions a transport call raises, by how _connect treats them:
\*   "unreachable"  BleakError whose text says "no longer reachable" or
\*                  "out of connection slots"
\*   "transport"    any other BleakError, or asyncio.TimeoutError
\*   "other"        an exception that is neither (not caught by _connect)
ErrClasses == {"unreachable", "transport", "other"}

----------------------------------------------------------------------------
(* parsers.py.  A frame is a sequence of bytes (0..255); data[i] of the     *)
(* source is m[i + 1] here.  A text is a sequence of code points.  A float  *)
(* raw / den is kept as the pair (raw, den).                                *)

BATTERY_MESSAGE_LENGTH == 17

MOTOR_MESSAGE_LENGTH == 18

EBM_MESSAGE_LENGTH == 17

\* byte_val & 0xFF
read_unsigned_byte(b) == b % 256

\* ((data[o] & 0xFF) << 8) | (data[o + 1] & 0xFF)
read16(m, o) == (m[o + 1] % 256) * 256 + (m[o + 2] % 256)

read24(m, o) ==
    (m[o + 1] % 256) * 65536 + (m[o + 2] % 256) * 256 + (m[o + 3] % 256)

read32LittleEndian(m, o) ==
    [hi |-> (m[o + 4] % 256) * 256 + (m[o + 3] % 256),
     lo |-> (m[o + 2] % 256) * 256 + (m[o + 1] % 256)]

\* The four bytes give a value up to 2^32 - 1, which is kept as its two
\* 16-bit halves: the value is hi * 65536 + lo.
read32(m, o) ==
    [hi |-> (m[o + 1] % 256) * 256 + (m[o + 2] % 256),
     lo |-> (m[o + 3] % 256) * 256 + (m[o + 4] % 256)]

Scaled(raw, den) == [num |-> raw, den |-> den]

\* bytes.decode("ascii", errors="ignore"): bytes above 127 are dropped.
AsciiIgnore(m) == SelectSeq(m, LAMBDA b : b < 128)

\* Whether b is a UTF-8 continuation byte.
IsCont(m, i) == i <= Len(m) /\ m[i] >= 128 /\ m[i] <= 191

\* The length of the well-formed UTF-8 sequence that starts at m[i], or 0.
Utf8Len(m, i) ==
    LET b == m[i]
        second(lo, hi) == i + 1 <= Len(m) /\ m[i + 1] >= lo /\ m[i + 1] <= hi
    IN  CASE b < 128 -> 1
          [] b >= 194 /\ b <= 223 -> IF IsCont(m, i + 1) THEN 2 ELSE 0
          [] b = 224 -> IF second(160, 191) /\ IsCont(m, i + 2) THEN 3 ELSE 0
          [] b = 237 -> IF second(128, 159) /\ IsCont(m, i + 2) THEN 3 ELSE 0
          [] b >= 225 /\ b <= 239 ->
                IF IsCont(m, i + 1) /\ IsCont(m, i + 2) THEN 3 ELSE 0
          [] b = 240 ->
                IF second(144, 191) /\ IsCont(m, i + 2) /\ IsCont(m, i + 3)
                THEN 4 ELSE 0
          [] b = 244 ->
                IF second(128, 143) /\ IsCont(m, i + 2) /\ IsCont(m, i + 3)
                THEN 4 ELSE 0
          [] b >= 241 /\ b <= 243 ->
                IF IsCont(m, i + 1) /\ IsCont(m, i + 2) /\ IsCont(m, i + 3)
                THEN 4 ELSE 0
          [] OTHER -> 0

\* The code point of the well-formed sequence of n bytes at m[i].
Utf8Point(m, i, n) ==
    CASE n = 1 -> m[i]
      [] n = 2 -> (m[i] - 192) * 64 + (m[i + 1] - 128)
      [] n = 3 -> (m[i] - 224) * 4096 + (m[i + 1] - 128) * 64 + (m[i + 2] - 128)
      [] OTHER -> (m[i] - 240) * 262144 + (m[i + 1] - 128) * 4096
                      + (m[i + 2] - 128) * 64 + (m[i + 3] - 128)

RECURSIVE Utf8From(_, _)
Utf8From(m, i) ==
    IF i > Len(m) THEN <<>>
    ELSE LET n == Utf8Len(m, i)
         IN  IF n = 0 THEN Utf8From(m, i + 1)
             ELSE <<Utf8Point(m, i, n)>> \o Utf8From(m, i + n)

\* bytes.decode("utf-8", errors="ignore"): ill-formed bytes are dropped.
Utf8Ignore(m) == Utf8From(m, 1)

StartsWith(text, pre) ==
    Len(text) >= Len(pre) /\ SubSeq(text, 1, Len(pre)) = pre

EndsWith(text, suf) ==
    Len(text) >= Len(suf)
        /\ SubSeq(text, Len(text) - Len(suf) + 1, Len(text)) = suf

\* text[a:-b]
Slice(text, a, b) == SubSeq(text, a + 1, Len(text) - b)

\* "$", "#@", "@", "$s$V#", "$s$P#", "R0", "ER", "OK"
TxtDollar == <<36>>

TxtHashAt == <<35, 64>>

TxtAt == <<64>>

TxtVinPrefix == <<36, 115, 36, 86, 35>>

TxtProtoPrefix == <<36, 115, 36, 80, 35>>

TxtR0 == <<82, 48>>

TxtER == <<69, 82>>

TxtOK == <<79, 75>>

\* The parser object: its four attributes.
Parser(st, cnt, v, pv) ==
    [state |-> st, battery_packet_counter |-> cnt, vin |-> v,
     protocol_version |-> pv]

\* What a parse routine did: the parser after it, what it returned (None or
\* a value) and whether it raised instead.
Parsed(P, r) == [p |-> P, ret |-> r, raised |-> FALSE]

Raised(P) == [p |-> P, ret |-> None, raised |-> TRUE]

ZeroBattery ==
    [voltage |-> Scaled(0, 10), soc |-> 0, temperature |-> 0,
     current |-> Scaled(0, 10), nominal_capacity |-> Scaled(0, 10),
     remaining_wh |-> Scaled(0, 10), cycles |-> None]

parse_battery_messageKeepsCounter(P, m) ==
    IF Len(m) < BATTERY_MESSAGE_LENGTH THEN Parsed(P, None)
    ELSE
    LET combined_raw == IF Len(m) >= 19 THEN Some(read16(m, 15)) ELSE None
        truthy == combined_raw # None /\ combined_raw[1] # 0
        battery_number == IF truthy THEN combined_raw[1] \div 10000 ELSE 1
        cycles == IF truthy THEN Some(combined_raw[1] % 10000) ELSE None
        d == [voltage |-> Scaled(read16(m, 5), 10),
              soc |-> read_unsigned_byte(m[8]),
              temperature |-> m[9],
              current |-> Scaled(read16(m, 9), 10),
              nominal_capacity |-> Scaled(read16(m, 11), 10),
              remaining_wh |-> Scaled(read16(m, 13), 10),
              cycles |-> cycles]
        cnt == P.battery_packet_counter + 1
    IN  CASE battery_number = 2 ->
               Parsed([P EXCEPT !.state["battery_secondary"] = Some(d)],
                      Some(d))
          [] battery_number = 1 ->
               Parsed([P EXCEPT !.battery_packet_counter = cnt,
                                !.state["battery_primary"] = Some(d),
                                !.state["battery_secondary"] =
                                    IF cnt >= 4 THEN Some(ZeroBattery) ELSE @],
                      Some(d))
          [] OTHER -> Parsed(P, Some(d))

parse_battery_messageZeroesAtFive(P, m) ==
    IF Len(m) < BATTERY_MESSAGE_LENGTH THEN Parsed(P, None)
    ELSE
    LET combined_raw == IF Len(m) >= 19 THEN Some(read16(m, 15)) ELSE None
        truthy == combined_raw # None /\ combined_raw[1] # 0
        battery_number == IF truthy THEN combined_raw[1] \div 10000 ELSE 1
        cycles == IF truthy THEN Some(combined_raw[1] % 10000) ELSE None
        d == [voltage |-> Scaled(read16(m, 5), 10),
              soc |-> read_unsigned_byte(m[8]),
              temperature |-> m[9],
              current |-> Scaled(read16(m, 9), 10),
              nominal_capacity |-> Scaled(read16(m, 11), 10),
              remaining_wh |-> Scaled(read16(m, 13), 10),
              cycles |-> cycles]
        cnt == P.battery_packet_counter + 1
    IN  CASE battery_number = 2 ->
               Parsed([P EXCEPT !.battery_packet_counter = 0,
                                !.state["battery_secondary"] = Some(d)],
                      Some(d))
          [] battery_number = 1 ->
               Parsed([P EXCEPT !.battery_packet_counter = cnt,
                                !.state["battery_primary"] = Some(d),
                                !.state["battery_secondary"] =
                                    IF cnt >= 5 THEN Some(ZeroBattery) ELSE @],
                      Some(d))
          [] OTHER -> Parsed(P, Some(d))

parse_battery_messageElsePrimary(P, m) ==
    IF Len(m) < BATTERY_MESSAGE_LENGTH THEN Parsed(P, None)
    ELSE
    LET combined_raw == IF Len(m) >= 19 THEN Some(read16(m, 15)) ELSE None
        truthy == combined_raw # None /\ combined_raw[1] # 0
        battery_number == IF truthy THEN combined_raw[1] \div 10000 ELSE 1
        cycles == IF truthy THEN Some(combined_raw[1] % 10000) ELSE None
        d == [voltage |-> Scaled(read16(m, 5), 10),
              soc |-> read_unsigned_byte(m[8]),
              temperature |-> m[9],
              current |-> Scaled(read16(m, 9), 10),
              nominal_capacity |-> Scaled(read16(m, 11), 10),
              remaining_wh |-> Scaled(read16(m, 13), 10),
              cycles |-> cycles]
        cnt == P.battery_packet_counter + 1
    IN  CASE battery_number = 2 ->
               Parsed([P EXCEPT !.battery_packet_counter = 0,
                                !.state["battery_secondary"] = Some(d)],
                      Some(d))
          [] battery_number # 2 ->
               Parsed([P EXCEPT !.battery_packet_counter = cnt,
                                !.state["battery_primary"] = Some(d),
                                !.state["battery_secondary"] =
                                    IF cnt >= 4 THEN Some(ZeroBattery) ELSE @],
                      Some(d))
          [] OTHER -> Parsed(P, Some(d))

parse_battery_message(P, m) ==
    IF Len(m) < BATTERY_MESSAGE_LENGTH THEN Parsed(P, None)
    ELSE
    LET combined_raw == IF Len(m) >= 19 THEN Some(read16(m, 15)) ELSE None
        \* "if combined_raw": None and 0 are both falsy
        truthy == combined_raw # None /\ combined_raw[1] # 0
        battery_number == IF truthy THEN combined_raw[1] \div 10000 ELSE 1
        cycles == IF truthy THEN Some(combined_raw[1] % 10000) ELSE None
        d == [voltage |-> Scaled(read16(m, 5), 10),
              soc |-> read_unsigned_byte(m[8]),
              temperature |-> m[9],
              current |-> Scaled(read16(m, 9), 10),
              nominal_capacity |-> Scaled(read16(m, 11), 10),
              remaining_wh |-> Scaled(read16(m, 13), 10),
              cycles |-> cycles]
        cnt == P.battery_packet_counter + 1
    IN  CASE battery_number = 2 ->
               Parsed([P EXCEPT !.battery_packet_counter = 0,
                                !.state["battery_secondary"] = Some(d)],
                      Some(d))
          [] battery_number = 1 ->
               Parsed([P EXCEPT !.battery_packet_counter = cnt,
                                !.state["battery_primary"] = Some(d),
                                !.state["battery_secondary"] =
                                    IF cnt >= 4 THEN Some(ZeroBattery) ELSE @],
                      Some(d))
          [] OTHER -> Parsed(P, Some(d))

parse_motor_messageClearsAssist(P, m) ==
    IF Len(m) < MOTOR_MESSAGE_LENGTH THEN Parsed(P, None)
    ELSE
    LET d == [assist_level |-> m[6],
              temperature_celsius |-> m[7],
              power_amp |-> Scaled(read16(m, 7), 10),
              speed_kmh |-> Scaled(read16(m, 9), 10),
              wheel_speed_rpm |-> read_unsigned_byte(m[12]),
              torque_motor_pct |-> m[13],
              power_max_amp |-> Scaled(read16(m, 13), 10),
              max_torque_motor_pct |-> m[16]]
    IN  Parsed([P EXCEPT !.state["motor"] = Some(d),
                         !.state["assist"] = None], Some(d))

parse_motor_messageAcceptsSeventeen(P, m) ==
    IF Len(m) < MOTOR_MESSAGE_LENGTH - 1 THEN Parsed(P, None)
    ELSE
    LET d == [assist_level |-> m[6],
              temperature_celsius |-> m[7],
              power_amp |-> Scaled(read16(m, 7), 10),
              speed_kmh |-> Scaled(read16(m, 9), 10),
              wheel_speed_rpm |-> read_unsigned_byte(m[12]),
              torque_motor_pct |-> m[13],
              power_max_amp |-> Scaled(read16(m, 13), 10),
              max_torque_motor_pct |-> m[16]]
    IN  Parsed([P EXCEPT !.state["motor"] = Some(d)], Some(d))

parse_motor_message(P, m) ==
    IF Len(m) < MOTOR_MESSAGE_LENGTH THEN Parsed(P, None)
    ELSE
    LET d == [assist_level |-> m[6],
              temperature_celsius |-> m[7],
              power_amp |-> Scaled(read16(m, 7), 10),
              speed_kmh |-> Scaled(read16(m, 9), 10),
              wheel_speed_rpm |-> read_unsigned_byte(m[12]),
              torque_motor_pct |-> m[13],
              power_max_amp |-> Scaled(read16(m, 13), 10),
              max_torque_motor_pct |-> m[16]]
    IN  Parsed([P EXCEPT !.state["motor"] = Some(d)], Some(d))

\* int(chr(b)) is the digit's value and raises ValueError for any other byte.
IsDigit(b) == b >= 48 /\ b <= 57

parse_assist_level_message(P, m) ==
    CASE Len(m) = 10 ->
           IF IsDigit(m[6]) /\ IsDigit(m[7]) /\ IsDigit(m[8])
           THEN LET d == [min |-> m[6] - 48, max |-> m[7] - 48,
                          current |-> m[8] - 48]
                IN  Parsed([P EXCEPT !.state["assist"] = Some(d)], Some(d))
           ELSE Raised(P)
      [] Len(m) = 9 ->
           LET text == Utf8Ignore(m)
               result == SubSeq(text, 6, IF Len(text) < 7 THEN Len(text) ELSE 7)
               d == [sync_result |-> result, success |-> result = TxtOK]
           IN  Parsed([P EXCEPT !.state["assist"] = Some(d)], Some(d))
      [] OTHER -> Parsed(P, None)

parse_vin_messageAnyLength(P, m) ==
    LET text == Utf8Ignore(m)
        std == Slice(text, 5, 2)
        alt == Slice(text, 2, 1)
    IN  IF StartsWith(text, TxtVinPrefix) /\ EndsWith(text, TxtHashAt)
        THEN Parsed([P EXCEPT !.vin = Some(std)], Some(std))
        ELSE IF Len(text) = 20 /\ EndsWith(text, TxtAt) /\ StartsWith(text, TxtR0)
                  /\ Len(alt) = 17
             THEN Parsed([P EXCEPT !.vin = Some(alt)], Some(alt))
             ELSE Parsed(P, None)

parse_vin_message(P, m) ==
    LET text == Utf8Ignore(m)
        std == Slice(text, 5, 2)
        alt == Slice(text, 2, 1)
    IN  IF StartsWith(text, TxtVinPrefix) /\ EndsWith(text, TxtHashAt)
             /\ Len(std) = 17
        THEN Parsed([P EXCEPT !.vin = Some(std)], Some(std))
        ELSE IF Len(text) = 20 /\ EndsWith(text, TxtAt) /\ StartsWith(text, TxtR0)
                  /\ Len(alt) = 17
             THEN Parsed([P EXCEPT !.vin = Some(alt)], Some(alt))
             ELSE Parsed(P, None)

parse_protocol_messageKeepsHash(P, m) ==
    LET text == Utf8Ignore(m)
        version == Slice(text, 5, 1)
    IN  IF StartsWith(text, TxtProtoPrefix) /\ EndsWith(text, TxtHashAt)
             /\ Slice(text, 5, 2) # <<>> /\ Slice(text, 5, 2) # TxtER
        THEN Parsed([P EXCEPT !.protocol_version = Some(version)], Some(version))
        ELSE Parsed(P, None)

parse_protocol_messageClearsOnError(P, m) ==
    LET text == Utf8Ignore(m)
        version == Slice(text, 5, 2)
    IN  IF StartsWith(text, TxtProtoPrefix) /\ EndsWith(text, TxtHashAt)
             /\ version # <<>> /\ version # TxtER
        THEN Parsed([P EXCEPT !.protocol_version = Some(version)], Some(version))
        ELSE Parsed([P EXCEPT !.protocol_version = None], None)

parse_protocol_message(P, m) ==
    LET text == Utf8Ignore(m)
        version == Slice(text, 5, 2)
    IN  IF StartsWith(text, TxtProtoPrefix) /\ EndsWith(text, TxtHashAt)
             /\ version # <<>> /\ version # TxtER
        THEN Parsed([P EXCEPT !.protocol_version = Some(version)], Some(version))
        ELSE Parsed(P, None)

parse_ebm_messageLightNonZero(P, m) ==
    IF Len(m) < EBM_MESSAGE_LENGTH \/ Len(m) < 15 THEN Parsed(P, None)
    ELSE
    LET d == [odometry |-> Scaled(read32(m, 5), 10000),
              autonomy |-> Scaled(read32(m, 9), 10000),
              is_light_on |-> (m[14] # 0),
              status |-> read_unsigned_byte(m[15])]
    IN  Parsed([P EXCEPT !.state["ebm"] = Some(d)], Some(d))

parse_ebm_message(P, m) ==
    IF Len(m) < EBM_MESSAGE_LENGTH \/ Len(m) < 15 THEN Parsed(P, None)
    ELSE
    LET d == [odometry |-> Scaled(read32(m, 5), 10000),
              autonomy |-> Scaled(read32(m, 9), 10000),
              is_light_on |-> (m[14] = 1),
              status |-> read_unsigned_byte(m[15])]
    IN  Parsed([P EXCEPT !.state["ebm"] = Some(d)], Some(d))

\* The kind chosen by the (main, sub) characters of a "$...#@" frame; sub
\* is 0 when the text has no character at offset 3.
DelimitedType(main, sub) ==
    CASE main = 98 -> "battery"
      [] main = 100 ->
           CASE sub = 73 -> "diagnosis_init"
             [] sub = 82 -> "diagnosis_read"
             [] sub = 69 -> "diagnosis_end"
             [] sub = 90 -> "security_session"
             [] sub = 67 -> "coding_device"
             [] sub = 86 -> "write_vin"
             [] sub = 84 -> "status"
             [] OTHER    -> "unknown"
      [] main = 106 /\ sub = 90 -> "ebm"
      [] main = 109 ->
           CASE sub = 65 -> "assist"
             [] sub = 90 -> "motor"
             [] sub = 77 -> "engine_maps"
             [] sub = 82 -> "reset_trip"
             [] OTHER    -> "unknown"
      [] main = 115 ->
           CASE sub = 86 -> "vin"
             [] sub = 80 -> "protocol"
             [] OTHER    -> "unknown"
      [] main = 77 /\ sub = 77 -> "engine_maps"
      [] main = 105 /\ sub = 67 -> "calibrate"
      [] OTHER -> "unknown"

\* The kind chosen by the first character of a frame that ends with "@".
TerminalType(main) ==
    CASE main = 84 -> "status"
      [] main = 67 -> "coding_device"
      [] main = 82 -> "vin"
      [] main = 90 -> "security_challenge"
      [] OTHER     -> "unknown"

recognize_message_type(m) ==
    LET text == AsciiIgnore(m)
    IN  IF StartsWith(text, TxtDollar) /\ EndsWith(text, TxtHashAt)
        THEN DelimitedType(text[2], IF Len(text) > 3 THEN text[4] ELSE 0)
        ELSE IF EndsWith(text, TxtAt)
             THEN TerminalType(text[1])
             ELSE "unknown"

\* handle_message returns None whatever the parse routine returned.
handle_message(P, m) ==
    LET msg_type == recognize_message_type(m)
        res == CASE msg_type = "battery"  -> parse_battery_message(P, m)
                 [] msg_type = "motor"    -> parse_motor_message(P, m)
                 [] msg_type = "assist"   -> parse_assist_level_message(P, m)
                 [] msg_type = "ebm"      -> parse_ebm_message(P, m)
                 [] msg_type = "vin"      -> parse_vin_message(P, m)
                 [] msg_type = "protocol" -> parse_protocol_message(P, m)
                 [] OTHER                 -> Parsed(P, None)
    IN  [res EXCEPT !.ret = None]

\* No direct call yet, and the outcome of a call: it raised, or it returned
\* value (None, or Some(v)).
NoCall == [fn |-> "none", frame |-> <<>>]

NoReturn == [raised |-> FALSE, value |-> None, pending |-> FALSE]

\* A call that has been made and has not ended yet.
Pending == [raised |-> FALSE, value |-> None, pending |-> TRUE]

Outcome(res) == [raised |-> res.raised, value |-> res.ret, pending |-> FALSE]

----------------------------------------------------------------------------
(* The transport, as the coordinator sees it (bleak, bleak_retry_connector) *)

FreeSessions == {s \in Sessions : link[s] = "free"}

\* A session object nobody references any more and whose link is down is
\* collected (del client_to_cleanup / del old_client): its id is free again.
Gc(nlink, nclient, nloc) ==
    [s \in Sessions |->
        IF /\ nlink[s] \in {"lost", "closed"}
           /\ nclient # s
           /\ \A t \in Tasks : nloc[t] # s
        THEN "free"
        ELSE nlink[s]]

NewSession == CHOOSE s \in FreeSessions : \A u \in FreeSessions : s <= u

\* establish_connection: a session, or an error.
OpenOutcomes == (IF FreeSessions # {} THEN {"ok"} ELSE {}) \cup ErrClasses

\* write_gatt_char / start_notify / stop_notify on session s.
IoOutcomes(s) == (IF link[s] = "live" THEN {"ok"} ELSE {}) \cup ErrClasses

\* BleakClient.is_connected: the link's state, or the query itself failing.
LiveOutcomes(s) == {IF link[s] = "live" THEN "yes" ELSE "no", "raise"}

\* A teardown call on session s, whose error the caller only logs.
TeardownOutcomes(s) == (IF link[s] = "live" THEN {"ok"} ELSE {}) \cup {"fail"}

\* BleakClient.disconnect(): closes the session, or fails and leaves it.
Closed(s) == [link EXCEPT ![s] = IF @ \in {"live", "lost"} THEN "closed" ELSE @]

\* bluetooth.async_last_service_info(...).rssi, or None (no info, or an error).
RssiValues == {None, Some(RssiSample)}

----------------------------------------------------------------------------
(* Bookkeeping shared by the coordinator's actions *)

\* No other operation is in progress.
Alone(t) == \A u \in Tasks \ {t} : pc[u] = "idle"

\* The scenario monitor of the serial runs: 1 once a disconnect has
\* returned, 2 once a poll tick has ended after that, 3 once a reconnect
\* has returned normally after that; any other completion resets it.
ScenAfter(t, npc) ==
    CASE ~serial       -> scen
      [] npc # "idle"  -> IF npc = "raised" THEN 0 ELSE scen
      [] t = "disc"    -> 1
      [] t = "poll"    -> IF scen = 1 THEN 2 ELSE 0
      [] t = "recon"   -> IF scen = 2 /\ pc[t] # "raised" THEN 3 ELSE 0
      [] OTHER         -> 0

\* Task t's run ends with: self._client = nc, t suspended at npc holding
\* session nloc, the transport in (nlink, nnotif), t's teardown log nlog.
Apply(t, nc, npc, nloc, nlink, nnotif, nlog) ==
    /\ serial => Alone(t)
    /\ scen' = ScenAfter(t, npc)
    /\ UNCHANGED serial
    /\ client' = nc
    /\ pc' = [pc EXCEPT ![t] = npc]
    /\ loc' = [loc EXCEPT ![t] = nloc]
    /\ link' = Gc(nlink, nc, [loc EXCEPT ![t] = nloc])
    /\ notifying' = {s \in nnotif : nlink[s] = "live"}
    /\ tlog' = [tlog EXCEPT ![t] = nlog]

\* The environment starts task t: fewer than MaxConcurrent others are running.
MayStart(t) ==
    Cardinality({u \in Tasks \ {t} : pc[u] # "idle"}) < MaxConcurrent

\* The awaits inside _connect.
ConnectPcs == {"c_olddisc", "c_cooldown", "c_open", "c_notify", "c_vin",
               "c_pause", "c_proto"}

----------------------------------------------------------------------------
(* _async_update_data: the poll tick, and how it ends *)

\* state = self._parser.state or {five empty slots}; state["rssi"] = r.
\* A non-empty dict is truthy, so the dict returned is the parser's own.
ReturnedState(st, r) ==
    LET base == IF DOMAIN st # {} THEN st ELSE EmptyState
    IN  [k \in DOMAIN base \cup {"rssi"} |-> IF k = "rssi" THEN r ELSE base[k]]

\* The parser's dict after the tick: the same object when it was returned.
StateAfterPoll(st, r) == IF DOMAIN st # {} THEN ReturnedState(st, r) ELSE st

\* MySmartBikeConnectionSwitch.is_on
is_onShowsConnection == is_connected

is_on == ~manual_disconnect

\* self.async_write_ha_state(): the entity's state is written from is_on as
\* it is at the call.  async_turn_on calls it before async_reconnect.
written_state == IF is_on THEN "on" ELSE "off"

\* "if not self._is_connected and not self._manual_disconnect".
ShouldAutoReconnectNoFlag == ~is_connected

ShouldAutoReconnect == ~is_connected /\ ~manual_disconnect

\* "except Exception" around the tick's _connect: every class is caught.
PollCatchesUpdateFailedOnly(e) == e # "other"

PollCatches(e) == TRUE

\* The tick returns the state dict with rssi attached; how is what the
\* tick did before: "skipped" (flag set), "kept" (already connected),
\* "connected" or "failed" (its _connect returned or raised).
PollReturns(how) ==
    /\ last_tick' = how
    /\ \E r \in RssiValues :
        /\ state' = StateAfterPoll(state, r)
        /\ data' = Some(ReturnedState(state, r))

\* "self._manual_disconnect = False" before async_reconnect's _connect.
FlagAfterReconnectKept == manual_disconnect

FlagAfterReconnect == FALSE

\* async_reconnect's handler logs the error and ends with "raise".
ReconnectSwallows(e) == FALSE

ReconnectReraises(e) == TRUE

\* Where task t is once its _connect has raised an error of class e.
ExitPc(t, e) ==
    IF t = "poll"
    THEN IF PollCatches(e) THEN "idle" ELSE "raised"
    ELSE IF ReconnectReraises(e) THEN "raised" ELSE "idle"

----------------------------------------------------------------------------
(* _connect, run by task t ("poll" or "recon") *)

ConnectEntryKeepsHandle(cl, q, log) ==
    IF cl # 0
    THEN [client |-> cl,
          pc     |-> IF q = "yes" THEN "c_olddisc" ELSE "c_cooldown",
          loc    |-> IF q = "yes" THEN cl ELSE 0,
          log    |-> IF q = "yes" THEN Append(log, "close") ELSE log]
    ELSE [client |-> 0, pc |-> "c_open", loc |-> 0, log |-> log]

\* Entry, up to the first await: a client that already exists is dropped
\* and, when it reports itself connected, disconnected.  q is what
\* old_client.is_connected answers; log is the caller's teardown log.
ConnectEntry(cl, q, log) ==
    IF cl # 0
    THEN [client |-> 0,
          pc     |-> IF q = "yes" THEN "c_olddisc" ELSE "c_cooldown",
          loc    |-> IF q = "yes" THEN cl ELSE 0,
          log    |-> IF q = "yes" THEN Append(log, "close") ELSE log]
    ELSE [client |-> 0, pc |-> "c_open", loc |-> 0, log |-> log]

\* What old_client.is_connected can answer at entry.
EntryQueries(cl) == IF cl # 0 THEN LiveOutcomes(cl) ELSE {"no"}

\* "except (BleakError, asyncio.TimeoutError)": is_connected = False and
\* UpdateFailed is raised; any other exception passes through untouched.
\* The handler's effect on the two flags.
ConnectHandlerSetsFlag(e) ==
    [is_connected      |-> IF e \in {"unreachable", "transport"} THEN FALSE
                           ELSE is_connected,
     manual_disconnect |-> IF e \in {"unreachable", "transport"} THEN TRUE
                           ELSE manual_disconnect]

ConnectHandlerKeepsConnected(e) ==
    [is_connected      |-> is_connected,
     manual_disconnect |-> manual_disconnect]

ConnectHandler(e) ==
    [is_connected      |-> IF e \in {"unreachable", "transport"} THEN FALSE
                           ELSE is_connected,
     manual_disconnect |-> manual_disconnect]

\* _connect ends in error class e with self._client = nc.
ConnectFails(t, e, nc, nnotif) ==
    /\ is_connected' = ConnectHandler(e).is_connected
    /\ manual_disconnect' = ConnectHandler(e).manual_disconnect
    /\ Apply(t, nc, ExitPc(t, e), 0, link, nnotif, <<>>)
    /\ IF t = "poll" /\ ExitPc(t, e) = "idle"
       THEN PollReturns("failed")
       ELSE UNCHANGED <<state, data, last_tick>>
    /\ UNCHANGED <<unloaded, raced, parserCache, call, ret>>

\* A step of _connect that neither ends it nor touches the flags.
ConnectGoes(t, nc, npc, nloc, nlink, nnotif) ==
    /\ Apply(t, nc, npc, nloc, nlink, nnotif, tlog[t])
    /\ UNCHANGED <<is_connected, manual_disconnect, unloaded, data, last_tick,
                   raced, state, parserCache, call, ret>>

\* await old_client.disconnect() is over (its error is only logged).
ConnectOldDisconnected(t) ==
    /\ pc[t] = "c_olddisc"
    /\ \E o \in {"ok", "fail"} :
        ConnectGoes(t, client, "c_cooldown", 0,
                    IF o = "ok" THEN Closed(loc[t]) ELSE link, notifying)

\* await asyncio.sleep(3.0) is over: the cleanup has ended (its log with it)
\* and establish_connection is called.
ConnectCooldownDone(t) ==
    /\ pc[t] = "c_cooldown"
    /\ Apply(t, client, "c_open", 0, link, notifying, <<>>)
    /\ UNCHANGED <<is_connected, manual_disconnect, unloaded, data, last_tick,
                   raced, state, parserCache, call, ret>>

\* establish_connection is over: self._client = the session, start_notify.
ConnectOpened(t) ==
    /\ pc[t] = "c_open"
    /\ \E o \in OpenOutcomes :
        IF o = "ok"
        THEN ConnectGoes(t, NewSession, "c_notify", NewSession,
                         [link EXCEPT ![NewSession] = "live"], notifying)
        ELSE ConnectFails(t, o, client, notifying)

\* start_notify is over: self._client (read again) gets the VIN request.
\* self._client being None by now is an AttributeError.
ConnectNotifyStarted(t) ==
    /\ pc[t] = "c_notify"
    /\ \E o \in IoOutcomes(loc[t]) :
        IF o = "ok"
        THEN IF client # 0
             THEN ConnectGoes(t, client, "c_vin", client, link,
                              notifying \cup {loc[t]})
             ELSE ConnectFails(t, "other", client, notifying \cup {loc[t]})
        ELSE ConnectFails(t, o, client, notifying)

ConnectVinWrittenMarksConnected(t) ==
    /\ pc[t] = "c_vin"
    /\ \E o \in IoOutcomes(loc[t]) :
        IF o = "ok"
        THEN /\ is_connected' = TRUE
             /\ Apply(t, client, "c_pause", 0, link, notifying, tlog[t])
             /\ UNCHANGED <<manual_disconnect, unloaded, data, last_tick,
                            raced, state, parserCache, call, ret>>
        ELSE ConnectFails(t, o, client, notifying)

\* The VIN request is written: asyncio.sleep(0.2).
ConnectVinWritten(t) ==
    /\ pc[t] = "c_vin"
    /\ \E o \in IoOutcomes(loc[t]) :
        IF o = "ok"
        THEN ConnectGoes(t, client, "c_pause", 0, link, notifying)
        ELSE ConnectFails(t, o, client, notifying)

\* The pause is over: self._client (read again) gets the protocol request.
ConnectPauseDone(t) ==
    /\ pc[t] = "c_pause"
    /\ IF client # 0
       THEN ConnectGoes(t, client, "c_proto", client, link, notifying)
       ELSE ConnectFails(t, "other", client, notifying)

\* The protocol request is written: is_connected = True, _connect returns
\* and so does its caller.
ConnectProtoWritten(t) ==
    /\ pc[t] = "c_proto"
    /\ \E o \in IoOutcomes(loc[t]) :
        IF o = "ok"
        THEN /\ is_connected' = TRUE
             /\ Apply(t, client, "idle", 0, link, notifying, <<>>)
             /\ IF t = "poll" THEN PollReturns("connected")
                ELSE UNCHANGED <<state, data, last_tick>>
             /\ UNCHANGED <<manual_disconnect, unloaded, raced, parserCache, call, ret>>
        ELSE ConnectFails(t, o, client, notifying)

ConnectStep(t) ==
    \/ ConnectOldDisconnected(t)
    \/ ConnectCooldownDone(t)
    \/ ConnectOpened(t)
    \/ ConnectNotifyStarted(t)
    \/ ConnectVinWritten(t)
    \/ ConnectPauseDone(t)
    \/ ConnectProtoWritten(t)

\* The scheduler calls _async_update_data.
PollTick ==
    /\ pc["poll"] = "idle"
    /\ ~unloaded
    /\ MayStart("poll")
    /\ raced' = FALSE
    /\ IF ShouldAutoReconnect
       THEN \E q \in EntryQueries(client) :
              LET e == ConnectEntry(client, q, <<>>)
              IN  /\ Apply("poll", e.client, e.pc, e.loc, link, notifying, e.log)
                  /\ UNCHANGED <<state, data, last_tick>>
       ELSE /\ Apply("poll", client, "idle", 0, link, notifying, <<>>)
            /\ PollReturns(IF manual_disconnect THEN "skipped" ELSE "kept")
    /\ UNCHANGED <<is_connected, manual_disconnect, unloaded, parserCache, call, ret>>

----------------------------------------------------------------------------
(* async_reconnect *)

\* Entry: an existing client is dropped and, when connected, disconnected;
\* with no client the flag is cleared and _connect starts at once.
Reconnect ==
    /\ pc["recon"] = "idle"
    /\ ~unloaded
    /\ MayStart("recon")
    /\ raced' = FALSE
    /\ IF client # 0
       THEN \E q \in LiveOutcomes(client) :
              /\ is_connected' = FALSE
              /\ Apply("recon", 0,
                       IF q = "yes" THEN "r_olddisc" ELSE "r_cooldown",
                       IF q = "yes" THEN client ELSE 0,
                       link, notifying,
                       IF q = "yes" THEN <<"close">> ELSE <<>>)
              /\ UNCHANGED manual_disconnect
       ELSE LET e == ConnectEntry(client, "no", <<>>)
            IN  /\ manual_disconnect' = FlagAfterReconnect
                /\ Apply("recon", e.client, e.pc, e.loc, link, notifying, e.log)
                /\ UNCHANGED is_connected
    /\ UNCHANGED <<unloaded, data, last_tick, state, parserCache, call, ret>>

\* await old_client.disconnect() is over (its error is only logged).
ReconnectOldDisconnected ==
    /\ pc["recon"] = "r_olddisc"
    /\ \E o \in {"ok", "fail"} :
        Apply("recon", client, "r_cooldown", 0,
              IF o = "ok" THEN Closed(loc["recon"]) ELSE link, notifying,
              tlog["recon"])
    /\ UNCHANGED <<is_connected, manual_disconnect, unloaded, data, last_tick,
                   raced, state, parserCache, call, ret>>

\* The cooldown is over: the flag is cleared and _connect starts.
ReconnectCooldownDone ==
    /\ pc["recon"] = "r_cooldown"
    /\ manual_disconnect' = FlagAfterReconnect
    /\ \E q \in EntryQueries(client) :
        LET e == ConnectEntry(client, q, tlog["recon"])
        IN  Apply("recon", e.client, e.pc, e.loc, link, notifying, e.log)
    /\ UNCHANGED <<is_connected, unloaded, data, last_tick, raced, state,
                   parserCache, call, ret>>

\* Where async_turn_on is after async_reconnect raised: "except Exception"
\* logs and falls off the end, so it has returned ("failed" would be an
\* error that its caller gets).
AfterTurnOnErrorPropagates == "failed"

AfterTurnOnError == "idle"

\* switch.async_turn_on, which awaits async_reconnect, catches what it raises.
SwitchCatchesReconnectError ==
    /\ pc["recon"] = "raised"
    /\ Apply("recon", client, AfterTurnOnError, 0, link, notifying, <<>>)
    /\ UNCHANGED <<is_connected, manual_disconnect, unloaded, data, last_tick,
                   raced, state, parserCache, call, ret>>

----------------------------------------------------------------------------
(* async_disconnect *)

\* An error of the close-frame write is logged; stop_notify comes next.
AfterCloseFrameErrorAborts == "d_cooldown"

AfterCloseFrameError == "d_unsub"

\* An error of client_to_cleanup.is_connected is caught by the outer
\* "except Exception"; the finally clause sleeps either way.
AfterLiveQueryError == "d_cooldown"

\* The three teardown calls, in the order the source issues them.
FullTeardown == <<"close_frame", "unsubscribe", "close">>

\* What a step to pc value p adds to the teardown log.
Logged(log, p) ==
    CASE p \in {"d_write", "s_write"} -> Append(log, "close_frame")
      [] p \in {"d_unsub", "s_unsub"} -> Append(log, "unsubscribe")
      [] p \in {"d_close", "s_close"} -> Append(log, "close")
      [] OTHER                        -> log

\* A step of async_disconnect or async_shutdown that does not end it.
TeardownGoes(t, npc, nloc, nlink, nnotif) ==
    /\ Apply(t, client, npc, nloc, nlink, nnotif, Logged(tlog[t], npc))
    /\ UNCHANGED <<is_connected, manual_disconnect, unloaded, data, last_tick,
                   raced, state, parserCache, call, ret>>

\* Entry: the flag is set first, then the client is dropped and, when it
\* reports itself connected, the close frame is written.
Disconnect ==
    /\ pc["disc"] = "idle"
    /\ ~unloaded
    /\ MayStart("disc")
    /\ manual_disconnect' = TRUE
    /\ is_connected' = FALSE
    /\ raced' = (pc["poll"] \in ConnectPcs /\ pc["recon"] = "idle")
    /\ IF client # 0
       THEN \E q \in LiveOutcomes(client) :
              LET npc == CASE q = "yes" -> "d_write"
                           [] q = "no"  -> "d_cooldown"
                           [] OTHER     -> AfterLiveQueryError
              IN  Apply("disc", 0, npc, IF q = "yes" THEN client ELSE 0,
                        link, notifying, Logged(<<>>, npc))
       ELSE Apply("disc", client, "idle", 0, link, notifying, <<>>)
    /\ UNCHANGED <<unloaded, data, last_tick, state, parserCache, call, ret>>

\* The close frame is written (asyncio.sleep(0.5) follows) or has failed.
DisconnectCloseFrameWritten ==
    /\ pc["disc"] = "d_write"
    /\ \E o \in TeardownOutcomes(loc["disc"]) :
        TeardownGoes("disc", IF o = "ok" THEN "d_pause" ELSE AfterCloseFrameError,
                     loc["disc"], link, notifying)

\* The pause after the close frame is over: stop_notify.
DisconnectPauseDone ==
    /\ pc["disc"] = "d_pause"
    /\ TeardownGoes("disc", "d_unsub", loc["disc"], link, notifying)

\* stop_notify is over (its error is only logged): disconnect().
DisconnectUnsubscribed ==
    /\ pc["disc"] = "d_unsub"
    /\ \E o \in TeardownOutcomes(loc["disc"]) :
        TeardownGoes("disc", "d_close", loc["disc"], link,
                     IF o = "ok" THEN notifying \ {loc["disc"]} ELSE notifying)

\* disconnect() is over (its error is only logged): asyncio.sleep(3.0).
DisconnectClosed ==
    /\ pc["disc"] = "d_close"
    /\ \E o \in {"ok", "fail"} :
        TeardownGoes("disc", "d_cooldown", 0,
                     IF o = "ok" THEN Closed(loc["disc"]) ELSE link, notifying)

\* The cooldown is over: async_disconnect returns.
DisconnectCooldownDone ==
    /\ pc["disc"] = "d_cooldown"
    /\ Apply("disc", client, "idle", 0, link, notifying, <<>>)
    /\ UNCHANGED <<is_connected, manual_disconnect, unloaded, data, last_tick,
                   raced, state, parserCache, call, ret>>

----------------------------------------------------------------------------
(* async_shutdown, called once by async_unload_entry after the platforms
   (the poll listeners and the switch) are unloaded *)

\* Entry: the client is dropped and, when it reports itself connected, the
\* close frame is written; the flag is not touched.
Shutdown ==
    /\ pc["shut"] = "idle"
    /\ ~unloaded
    /\ MayStart("shut")
    /\ unloaded' = TRUE
    /\ is_connected' = FALSE
    /\ IF client # 0
       THEN \E q \in LiveOutcomes(client) :
              IF q = "yes"
              THEN Apply("shut", 0, "s_write", client, link, notifying,
                         Logged(<<>>, "s_write"))
              ELSE Apply("shut", 0, "idle", 0, link, notifying, <<>>)
       ELSE Apply("shut", client, "idle", 0, link, notifying, <<>>)
    /\ UNCHANGED <<manual_disconnect, data, last_tick, raced, state, parserCache, call, ret>>

\* The close frame is written (asyncio.sleep(0.5) follows) or has failed.
ShutdownCloseFrameWritten ==
    /\ pc["shut"] = "s_write"
    /\ \E o \in TeardownOutcomes(loc["shut"]) :
        TeardownGoes("shut", IF o = "ok" THEN "s_pause" ELSE "s_unsub",
                     loc["shut"], link, notifying)

\* The pause after the close frame is over: stop_notify.
ShutdownPauseDone ==
    /\ pc["shut"] = "s_pause"
    /\ TeardownGoes("shut", "s_unsub", loc["shut"], link, notifying)

\* stop_notify is over (its error is only logged): disconnect().
ShutdownUnsubscribed ==
    /\ pc["shut"] = "s_unsub"
    /\ \E o \in TeardownOutcomes(loc["shut"]) :
        TeardownGoes("shut", "s_close", loc["shut"], link,
                     IF o = "ok" THEN notifying \ {loc["shut"]} ELSE notifying)

\* disconnect() is over (its error is only logged): async_shutdown returns.
ShutdownClosed ==
    /\ pc["shut"] = "s_close"
    /\ \E o \in {"ok", "fail"} :
        Apply("shut", client, "idle", 0,
              IF o = "ok" THEN Closed(loc["shut"]) ELSE link, notifying, <<>>)
    /\ UNCHANGED <<is_connected, manual_disconnect, unloaded, data, last_tick,
                   raced, state, parserCache, call, ret>>

----------------------------------------------------------------------------
(* The environment *)

\* The radio link of a session drops (bike off or out of range).  Nothing
\* in the coordinator is told: it registers no disconnected callback.
LinkLost ==
    \E s \in Sessions :
        /\ link[s] = "live"
        /\ link' = Gc([link EXCEPT ![s] = "lost"], client, loc)
        /\ notifying' = notifying \ {s}
        /\ UNCHANGED <<client, is_connected, manual_disconnect, pc, loc,
                       unloaded, data, last_tick, tlog, raced, scen, serial,
                       state, parserCache, call, ret>>

\* "$m$Z#" 01 17 0000 0000 00 00 004f 64 "#@": a motor frame.
MotorFrame == <<36, 109, 36, 90, 35, 1, 23, 0, 0, 0, 0, 0, 0, 0, 79, 100, 35, 64>>

\* "$m$A#05A#@": an assist frame of 10 bytes whose third field is no digit.
BadAssistFrame == <<36, 109, 36, 65, 35, 48, 53, 65, 35, 64>>

\* "$d$I#OK#@": a frame of a kind the parser only logs.
DiagnosisFrame == <<36, 100, 36, 73, 35, 79, 75, 35, 64>>

\* The frames the bike sends to the coordinator in this model.
CtlFrames == {MotorFrame, BadAssistFrame, DiagnosisFrame}

\* _notification_handler: a subscribed session delivers one frame.  When
\* handle_message raises, async_set_updated_data is not reached.
Notification ==
    \E s \in notifying : \E m \in CtlFrames :
        LET res == handle_message(
                       Parser(state, battery_packet_counter, vin,
                              protocol_version), m)
        IN  /\ state' = res.p.state
            /\ battery_packet_counter' = res.p.battery_packet_counter
            /\ vin' = res.p.vin
            /\ protocol_version' = res.p.protocol_version
            /\ data' = IF res.raised THEN data ELSE Some(res.p.state)
            /\ UNCHANGED <<client, is_connected, manual_disconnect, link,
                           notifying, pc, loc, unloaded, tlog, raced,
                           last_tick, scen, serial, call, ret>>

----------------------------------------------------------------------------
(* The specifications *)

Idle ==
    /\ client = 0
    /\ is_connected = FALSE
    /\ manual_disconnect = FALSE
    /\ link = [s \in Sessions |-> "free"]
    /\ notifying = {}
    /\ pc = [t \in Tasks |-> "idle"]
    /\ loc = [t \in Tasks |-> 0]
    /\ unloaded = FALSE
    /\ data = None
    /\ tlog = [t \in Tasks |-> <<>>]
    /\ raced = FALSE
    /\ last_tick = "none"
    /\ scen = 0

Start ==
    /\ Idle
    /\ state = EmptyState
    /\ battery_packet_counter = 0
    /\ vin = None
    /\ protocol_version = None
    /\ call = NoCall
    /\ ret = NoReturn

Init == Start /\ serial = FALSE

InitSeq == Start /\ serial = TRUE

PollStep == PollTick \/ ConnectStep("poll")

ReconnectStep ==
    \/ Reconnect
    \/ ReconnectOldDisconnected
    \/ ReconnectCooldownDone
    \/ ConnectStep("recon")
    \/ SwitchCatchesReconnectError

DisconnectStep ==
    \/ Disconnect
    \/ DisconnectCloseFrameWritten
    \/ DisconnectPauseDone
    \/ DisconnectUnsubscribed
    \/ DisconnectClosed
    \/ DisconnectCooldownDone

ShutdownStep ==
    \/ Shutdown
    \/ ShutdownCloseFrameWritten
    \/ ShutdownPauseDone
    \/ ShutdownUnsubscribed
    \/ ShutdownClosed

Env == LinkLost \/ Notification

Next == PollStep \/ ReconnectStep \/ DisconnectStep \/ ShutdownStep \/ Env

\* Any interleaving of the four coroutines at their awaits.
Spec == Init /\ [][Next]_vars

\* The update coordinator schedules a poll tick every SCAN_INTERVAL, and the
\* event loop resumes a tick whose awaited call is over.
FairSpec == Spec /\ WF_vars(PollStep)

\* The operations one at a time: each runs to its end before the next starts.
SeqSpec == InitSeq /\ [][Next]_vars

----------------------------------------------------------------------------
(* The parser on its own: frames given to a BikeDataParser directly, as    *)
(* tests/components/mysmartbike_ble/test_parsers.py does.                  *)

\* n characters c, c + 1, ...
Fill(n, c) == [i \in 1..n |-> c + i - 1]

\* "$b$Z#", the reading of the recorded frame, the combined field, "#@".
BatteryFrame(hi, lo) ==
    <<36, 98, 36, 90, 35, 1, 147, 84, 23, 0, 0, 8, 119, 7, 26, hi, lo, 35, 64>>

\* The same reading in a 17-byte frame, which has no combined field.
BatteryFrame17 ==
    <<36, 98, 36, 90, 35, 1, 147, 84, 23, 0, 0, 8, 119, 7, 26, 35, 64>>

\* "$m$A#031#@" and "$m$A#OK#@"
AssistFrame == <<36, 109, 36, 65, 35, 48, 51, 49, 35, 64>>

AssistSyncFrame == <<36, 109, 36, 65, 35, 79, 75, 35, 64>>

EbmFrame ==
    <<36, 106, 36, 90, 35, 0, 86, 175, 104, 0, 11, 239, 111, 0, 0, 35, 64>>

\* "$s$V#" + body + "#@", "R0" + body + "@", "$s$P#" + body + "#@"
VinFrame(body) == TxtVinPrefix \o body \o TxtHashAt

VinR0Frame(body) == TxtR0 \o body \o TxtAt

ProtocolFrame(body) == TxtProtoPrefix \o body \o TxtHashAt

\* "1.02"
Version102 == <<49, 46, 48, 50>>

\* The frames of the sequences: of every kind, well-formed and not.
SeqFrames ==
    { BatteryFrame(39, 52),          \* combined 10036: battery 1
      BatteryFrame(78, 52),          \* combined 20020: battery 2
      BatteryFrame(117, 48),         \* combined 30000: battery 3
      BatteryFrame(0, 0),            \* combined 0
      BatteryFrame17,
      SubSeq(BatteryFrame17, 1, 6) \o TxtHashAt,
      MotorFrame,
      SubSeq(MotorFrame, 1, 6) \o TxtHashAt,
      AssistFrame,
      BadAssistFrame,
      AssistSyncFrame,
      EbmFrame,
      SubSeq(EbmFrame, 1, 6) \o TxtHashAt,
      VinFrame(Fill(17, 65)),
      VinFrame(TxtER),
      VinFrame(Fill(16, 65)),
      VinR0Frame(Fill(17, 66)),
      VinR0Frame(Fill(16, 66)),
      ProtocolFrame(Version102),
      ProtocolFrame(TxtER),
      ProtocolFrame(<<>>),
      DiagnosisFrame,
      <<1, 2, 3>>,
      <<>> }

\* What a call leaves behind: the parser's attributes and the histories.
Returns(fn, m, res) ==
    /\ state' = res.p.state
    /\ battery_packet_counter' = res.p.battery_packet_counter
    /\ vin' = res.p.vin
    /\ protocol_version' = res.p.protocol_version
    /\ call' = [fn |-> fn, frame |-> m]
    /\ ret' = Outcome(res)
    /\ UNCHANGED <<client, is_connected, manual_disconnect, link, notifying,
                   pc, loc, unloaded, data, tlog, raced, last_tick, scen,
                   serial>>

\* parser.handle_message(m), one frame after another.
HandleMessage ==
    \E m \in SeqFrames :
        LET res == handle_message(
                       Parser(state, battery_packet_counter, vin,
                              protocol_version), m)
        IN  /\ res.p.battery_packet_counter <= MaxPackets
            /\ Returns("handle_message", m, res)

ParserSpec == Init /\ [][HandleMessage]_vars

\* A new parser, and one that has handled a VIN, a protocol version, an
\* assist level, a secondary-battery frame and three primary-battery frames.
FreshParser == Parser(EmptyState, 0, None, None)

RECURSIVE AfterFrames(_, _)
AfterFrames(P, frames) ==
    IF frames = <<>> THEN P
    ELSE AfterFrames(handle_message(P, Head(frames)).p, Tail(frames))

UsedParser ==
    AfterFrames(FreshParser,
                <<VinFrame(Fill(17, 65)), ProtocolFrame(Version102),
                  AssistFrame, BatteryFrame(78, 52), BatteryFrame(39, 52),
                  BatteryFrame(39, 52), BatteryFrame(39, 52)>>)

PriorParsers == {FreshParser, UsedParser}

Byte == 0..255

\* Arguments of parse_battery_message: every value of the combined field,
\* and the lengths around 17 and 19.
BatteryArgs ==
    {BatteryFrame(hi, lo) : hi \in Byte, lo \in Byte}
        \cup {BatteryFrame17, BatteryFrame17 \o <<0>>,
              SubSeq(BatteryFrame17, 1, 16),
              SubSeq(BatteryFrame17, 1, 6) \o TxtHashAt, <<36, 98, 35, 64>>,
              <<>>}

\* Serials of 0 and 15..19 characters; of 17 characters with a byte that is
\* no UTF-8 in their 18 bytes; of 17 characters, one of them of two bytes.
VinBodies ==
    {Fill(n, 65) : n \in {0, 15, 16, 17, 18, 19}}
        \cup {Fill(8, 65) \o <<255>> \o Fill(9, 74),
              Fill(8, 65) \o <<195, 169>> \o Fill(8, 74)}

\* Arguments of parse_vin_message: "$s$V#", "$s$P#", "R0", "" or "$s$V",
\* then a serial, then "#@", "@", "#" or "".
VinArgs ==
    {pre \o body \o suf :
        pre \in {TxtVinPrefix, TxtProtoPrefix, TxtR0, <<>>, <<36, 115, 36, 86>>},
        body \in VinBodies,
        suf \in {TxtHashAt, TxtAt, <<35>>, <<>>}}

\* "", "ER", "E", "R", "ERR", "er", "1.02", "3.00", "#@", "1é", and a byte
\* that is no UTF-8.
Versions ==
    {<<>>, TxtER, <<69>>, <<82>>, <<69, 82, 82>>, <<101, 114>>, Version102,
     <<51, 46, 48, 48>>, TxtHashAt, <<49, 195, 169>>, <<255>>}

\* Arguments of parse_protocol_message: "$s$P#", "$s$V#" or "s$P#", then a
\* version, then "#@", "@" or "".
ProtocolArgs ==
    {pre \o v \o suf :
        pre \in {TxtProtoPrefix, TxtVinPrefix, <<115, 36, 80, 35>>},
        v \in Versions,
        suf \in {TxtHashAt, TxtAt, <<>>}}
        \cup {SubSeq(TxtProtoPrefix, 1, 4) \o TxtHashAt, <<>>}

\* "/", "0", "1", "9", ":", "A", " " and the byte B2.
LevelBytes == {47, 48, 49, 57, 58, 65, 32, 178}

\* "O", "K", "E", "R", and the bytes FF, C3, A9.
ResultBytes == {79, 75, 69, 82, 255, 195, 169}

\* Arguments of parse_assist_level_message: frames of 10 bytes, of 9 bytes
\* (one of them with a first byte that is no UTF-8), of 8, 11 and 0 bytes.
AssistArgs ==
    {<<36, 109, 36, 65, 35, a, b, c, 35, 64>> :
        a \in LevelBytes, b \in LevelBytes, c \in LevelBytes}
      \cup {<<36, 109, 36, 65, 35, a, b, 35, 64>> :
                a \in ResultBytes, b \in ResultBytes}
      \cup {<<255, 109, 36, 65, 35, 79, 75, 35, 64>>,
            <<36, 109, 36, 65, 35, 48, 35, 64>>,
            AssistFrame \o <<64>>,
            <<>>}

\* "b", "d", "j", "m", "s", "M", "i", "x", and the byte C8.
MainBytes == {98, 100, 106, 109, 115, 77, 105, 120, 200}

\* "I", "R", "E", "Z", "C", "V", "T", "A", "M", "P", "X", and the byte C8.
SubBytes == {73, 82, 69, 90, 67, 86, 84, 65, 77, 80, 88, 200}

\* "T", "C", "R", "Z", "X", "$", "@", and the byte C8.
FirstBytes == {84, 67, 82, 90, 88, 36, 64, 200}

\* Arguments of recognize_message_type: "$", main, "$", sub and an end
\* ("#@", two payload bytes and "#@", "@", none); a main character alone
\* or none between "$" and "#@"; a byte that is no ASCII before the main
\* character, before the sub character, before "$" and inside "#@"; a first
\* byte and an end; the empty frame.
RecognizeArgs ==
    {<<36, main, 36, sub>> \o end :
        main \in MainBytes, sub \in SubBytes,
        end \in {TxtHashAt, <<35, 1, 200>> \o TxtHashAt, TxtAt, <<>>}}
      \cup {<<36, main>> \o TxtHashAt : main \in MainBytes}
      \cup {<<36, 200, 98, 36, 90>> \o TxtHashAt,
            <<36, 109, 200, 36, 90>> \o TxtHashAt,
            <<200, 36, 98, 36, 90>> \o TxtHashAt,
            <<36, 98, 36, 90, 35, 200, 64>>,
            <<200, 84, 64>>,
            <<36>> \o TxtHashAt,
            <<>>}
      \cup {<<first>> \o end :
                first \in FirstBytes, end \in {<<>>, TxtAt, <<49, 64>>, <<49>>}}

\* The values of the bytes the read functions are given.
ByteSamples == {0, 1, 2, 16, 127, 128, 254, 255}

\* Arguments of read16, read24 and read32: the bytes to read, after none or
\* three other bytes; the offset is where the bytes to read begin.
ReadArgs(width) ==
    {pad \o bytes : pad \in {<<>>, <<255, 1, 2>>},
                    bytes \in [1..width -> ByteSamples]}

\* The four bytes of an odometer or range field: those of the recorded
\* frame, and the ends of the range.
Distances ==
    {<<0, 86, 175, 104>>, <<0, 11, 239, 111>>, <<0, 0, 0, 0>>,
     <<128, 0, 0, 1>>, <<255, 255, 255, 255>>}

\* Arguments of parse_ebm_message: "$j$Z#", odometer, range, light, status
\* and "#@" or "#@" and one more byte; and frames of 16 and 14 bytes.
EbmArgs ==
    {<<36, 106, 36, 90, 35>> \o odo \o aut \o <<light, status>> \o end :
        odo \in Distances, aut \in Distances,
        light \in {0, 1, 2, 255}, status \in {0, 1, 200, 255},
        end \in {TxtHashAt, TxtHashAt \o <<0>>}}
      \cup {SubSeq(EbmFrame, 1, 14) \o TxtHashAt, SubSeq(EbmFrame, 1, 14),
            SubSeq(EbmFrame, 1, 6) \o TxtHashAt, <<>>}

\* Arguments of parse_motor_message: the recorded frame, with one more byte,
\* with other values, and frames of 17, 8 and 0 bytes.
MotorArgs ==
    {MotorFrame, MotorFrame \o <<0>>,
     <<36, 109, 36, 90, 35>> \o Fill(11, 245) \o TxtHashAt,
     SubSeq(MotorFrame, 1, 15) \o TxtHashAt,
     SubSeq(MotorFrame, 1, 6) \o TxtHashAt, <<>>}

DirectCalls ==
    [fn : {"parse_battery_message"}, frame : BatteryArgs]
      \cup [fn : {"parse_motor_message"}, frame : MotorArgs]
      \cup [fn : {"parse_ebm_message"}, frame : EbmArgs]
      \cup [fn : {"recognize_message_type"}, frame : RecognizeArgs]
      \cup [fn : {"read16"}, frame : ReadArgs(2)]
      \cup [fn : {"read24"}, frame : ReadArgs(3)]
      \cup [fn : {"read32"}, frame : ReadArgs(4)]
      \cup [fn : {"read_unsigned_byte"}, frame : [1..1 -> Byte]]
      \cup [fn : {"parse_vin_message"}, frame : VinArgs]
      \cup [fn : {"parse_protocol_message"}, frame : ProtocolArgs]
      \cup [fn : {"parse_assist_level_message"}, frame : AssistArgs]

\* One call of a parse routine on a parser that has been in use or not.
InitCall ==
    /\ Idle
    /\ serial = FALSE
    /\ \E P \in PriorParsers :
          /\ state = P.state
          /\ battery_packet_counter = P.battery_packet_counter
          /\ vin = P.vin
          /\ protocol_version = P.protocol_version
    /\ call \in DirectCalls
    /\ ret = Pending

ParseBattery ==
    /\ ret.pending
    /\ call.fn = "parse_battery_message"
    /\ Returns(call.fn, call.frame,
               parse_battery_message(
                   Parser(state, battery_packet_counter, vin,
                          protocol_version), call.frame))

ParseVin ==
    /\ ret.pending
    /\ call.fn = "parse_vin_message"
    /\ Returns(call.fn, call.frame,
               parse_vin_message(
                   Parser(state, battery_packet_counter, vin,
                          protocol_version), call.frame))

ParseProtocol ==
    /\ ret.pending
    /\ call.fn = "parse_protocol_message"
    /\ Returns(call.fn, call.frame,
               parse_protocol_message(
                   Parser(state, battery_packet_counter, vin,
                          protocol_version), call.frame))

ParseAssist ==
    /\ ret.pending
    /\ call.fn = "parse_assist_level_message"
    /\ Returns(call.fn, call.frame,
               parse_assist_level_message(
                   Parser(state, battery_packet_counter, vin,
                          protocol_version), call.frame))

ParseMotor ==
    /\ ret.pending
    /\ call.fn = "parse_motor_message"
    /\ Returns(call.fn, call.frame,
               parse_motor_message(
                   Parser(state, battery_packet_counter, vin,
                          protocol_version), call.frame))

ParseEbm ==
    /\ ret.pending
    /\ call.fn = "parse_ebm_message"
    /\ Returns(call.fn, call.frame,
               parse_ebm_message(
                   Parser(state, battery_packet_counter, vin,
                          protocol_version), call.frame))

RecognizeMessageType ==
    /\ ret.pending
    /\ call.fn = "recognize_message_type"
    /\ Returns(call.fn, call.frame,
               Parsed(Parser(state, battery_packet_counter, vin,
                             protocol_version),
                      Some(recognize_message_type(call.frame))))

\* read16(data, len(data) - 2), read24(data, len(data) - 3),
\* read32(data, len(data) - 4), read_unsigned_byte(data[0])
ReadBytes ==
    /\ ret.pending
    /\ call.fn \in {"read16", "read24", "read32", "read_unsigned_byte"}
    /\ LET bytes == call.frame
           value == CASE call.fn = "read16" -> read16(bytes, Len(bytes) - 2)
                      [] call.fn = "read24" -> read24(bytes, Len(bytes) - 3)
                      [] call.fn = "read32" -> read32(bytes, Len(bytes) - 4)
                      [] OTHER -> read_unsigned_byte(bytes[1])
       IN  Returns(call.fn, bytes,
                   Parsed(Parser(state, battery_packet_counter, vin,
                                 protocol_version), Some(value)))

CallNext ==
    \/ ParseBattery
    \/ ParseVin
    \/ ParseProtocol
    \/ ParseAssist
    \/ ParseMotor
    \/ ParseEbm
    \/ RecognizeMessageType
    \/ ReadBytes

CallSpec == InitCall /\ [][CallNext]_vars

----------------------------------------------------------------------------
(* Properties of the connection lifecycle *)

\* C1: a poll tick that runs while the manual-disconnect flag is set returns
\* at once: it does not enter _connect, and it opens no session (client and
\* every session's link are as before).
FlaggedTickNeverConnects ==
    [][(manual_disconnect /\ PollTick)
           => (pc'["poll"] = "idle" /\ client' = client /\ link' = link)]_vars

\* A tick that found the flag set has returned, the flag still set.
FlaggedTickSeen ==
    manual_disconnect /\ last_tick = "skipped" /\ pc["poll"] = "idle"

\* C2: in the run disconnect, poll tick, reconnect (each one over before the
\* next starts): after the disconnect, and still after the tick, the flag is
\* set, no client is held and is_connected is false; the tick did not
\* connect; after a reconnect that returned, the flag is clear, a client is
\* held and is_connected is true.
DisconnectTickReconnect ==
    (\A t \in Tasks : pc[t] = "idle") =>
        /\ scen \in {1, 2} => manual_disconnect /\ client = 0 /\ ~is_connected
        /\ scen = 2 => last_tick = "skipped"
        /\ scen = 3 => ~manual_disconnect /\ client # 0 /\ is_connected

\* The three operations have run in that order and the reconnect returned.
DisconnectTickReconnectDone ==
    /\ scen = 3
    /\ \A t \in Tasks : pc[t] = "idle"
    /\ link[client] = "live"

\* C3: the flag goes from false to true only in a step of async_disconnect
\* and from true to false only in a step of async_reconnect; no step of a
\* poll tick, of a _connect (whether it fails or not), of async_shutdown or
\* of the notification handler changes it.
FlagChangesOnlyByUser ==
    [][/\ (~manual_disconnect /\ manual_disconnect') => Disconnect
       /\ (manual_disconnect /\ ~manual_disconnect')
              => (Reconnect \/ ReconnectCooldownDone)
       /\ (PollStep \/ ConnectStep("recon") \/ ShutdownStep \/ Notification)
              => manual_disconnect' = manual_disconnect]_vars

\* The flag is set, and since the start a notification was handled, a tick's
\* _connect failed and async_shutdown ran.
FlagSurvivedOthers ==
    /\ manual_disconnect
    /\ unloaded /\ pc["shut"] = "idle"
    /\ last_tick = "failed"
    /\ state["motor"] # None

\* C4: when async_disconnect ran while a poll tick's _connect was suspended
\* (no reconnect since), then once both are over the flag is set,
\* is_connected is false and no client is held.
DisconnectNotRacedByTick ==
    (raced /\ pc["poll"] = "idle" /\ pc["disc"] = "idle")
        => (manual_disconnect /\ ~is_connected /\ client = 0)

\* C5: a _connect whose establish_connection returns a session does so while
\* no other _connect is in progress, or at least leaves a single live session.
ConnectOneAtATime ==
    [][\A t \in {"poll", "recon"} :
           (pc[t] = "c_open" /\ pc'[t] = "c_notify")
               => \/ \A u \in {"poll", "recon"} \ {t} : pc[u] \notin ConnectPcs
                  \/ Cardinality({s \in Sessions : link'[s] = "live"}) <= 1]_vars

\* C6: once the link of the held session is lost while is_connected is true
\* and the flag is clear, a poll tick eventually enters _connect, unless the
\* user steps in first (disconnect, reconnect or unload).
LinkLossLeadsToConnect ==
    (is_connected /\ client # 0 /\ link[client] = "lost"
         /\ ~manual_disconnect /\ ~unloaded)
        ~> (pc["poll"] \in ConnectPcs \/ manual_disconnect \/ unloaded
                \/ pc["recon"] # "idle")

\* C7: async_disconnect never ends in an error, and when it returns, having
\* run beside no reconnect (only beside a poll tick's _connect), the flag is
\* set, no client is held and is_connected is false.
DisconnectReturnsDisconnected ==
    /\ [](pc["disc"] # "raised")
    /\ [][(DisconnectStep /\ pc'["disc"] = "idle" /\ raced')
              => (manual_disconnect' /\ client' = 0 /\ ~is_connected')]_vars

\* C8: the teardown calls async_disconnect and async_shutdown issue are, in
\* this order, close-frame write, unsubscribe, close; and a teardown that
\* has issued the first ends only after it has issued all three, whatever
\* failed.
TeardownInOrder ==
    /\ [](\A t \in {"disc", "shut"} :
              /\ Len(tlog[t]) <= Len(FullTeardown)
              /\ tlog[t] = SubSeq(FullTeardown, 1, Len(tlog[t])))
    /\ [][\A t \in {"disc", "shut"} :
              (tlog[t] # <<>> /\ pc[t] # "idle" /\ pc'[t] = "idle")
                  => tlog[t] = FullTeardown]_vars

\* async_disconnect has issued the close although the unsubscribe before it
\* failed (the session still notifies).
CloseAfterFailedUnsubscribe ==
    /\ pc["disc"] = "d_close"
    /\ tlog["disc"] = FullTeardown
    /\ loc["disc"] \in notifying

\* C9: async_reconnect enters its _connect with the flag cleared, no step of
\* that _connect changes the flag, and the _connect ends either connected
\* (async_reconnect returns) or with its error raised to the caller.
ReconnectFailureRaised ==
    [][/\ (pc["recon"] \notin ConnectPcs /\ pc'["recon"] \in ConnectPcs)
              => ~manual_disconnect'
       /\ (pc["recon"] \in ConnectPcs /\ pc'["recon"] # pc["recon"])
              => /\ manual_disconnect' = manual_disconnect
                 /\ pc'["recon"] \in ConnectPcs \cup {"idle", "raised"}
                 /\ pc'["recon"] = "idle" => is_connected']_vars

\* async_reconnect has raised its _connect's error, the flag cleared.
ReconnectHasRaised ==
    pc["recon"] = "raised" /\ ~manual_disconnect /\ ~is_connected

\* C10: a poll tick never ends in an error, and whenever it returns, what it
\* returns has the five slots, each as the parser holds it.
TickAlwaysReturnsState ==
    /\ [](pc["poll"] # "raised")
    /\ [][(PollStep /\ pc'["poll"] = "idle")
              => /\ data' # None
                 /\ Slots \subseteq DOMAIN data'[1]
                 /\ \A k \in Slots : data'[1][k] = state[k]]_vars

\* A tick whose _connect failed has returned the state, motor data in it.
FailedTickReturnedState ==
    /\ last_tick = "failed" /\ pc["poll"] = "idle"
    /\ data # None /\ data[1]["motor"] # None

\* C11: a _connect that ends in an error of the unreachable class or of
\* the other transport class (whichever of the open, the subscribe and the
\* two startup writes raised it) ends with is_connected false, and its
\* caller gets the failure: async_reconnect raises, the poll tick takes its
\* failure branch.
ConnectFailureReported ==
    [][\A t \in {"poll", "recon"} : \A e \in {"unreachable", "transport"} :
           (pc[t] \in ConnectPcs /\ ConnectFails(t, e, client, notifying))
               => /\ ~is_connected'
                  /\ t = "recon" => pc'[t] = "raised"
                  /\ t = "poll" => pc'[t] = "idle" /\ last_tick' = "failed"]_vars

\* Both callers have got a failure, the later one after the open (a client
\* is held), and is_connected is false.
BothCallersSawFailure ==
    /\ last_tick = "failed"
    /\ pc["recon"] = "raised"
    /\ client # 0
    /\ ~is_connected

\* C12: async_shutdown issues the teardown calls of async_disconnect in the
\* same order, changes the flag in no step, has no cooldown (it returns from
\* the close), and returns with no client held and is_connected false.
ShutdownTearsDown ==
    /\ [](/\ Len(tlog["shut"]) <= Len(FullTeardown)
          /\ tlog["shut"] = SubSeq(FullTeardown, 1, Len(tlog["shut"]))
          /\ pc["shut"] \in {"idle", "s_write", "s_pause", "s_unsub", "s_close"})
    /\ [][ShutdownStep
              => /\ manual_disconnect' = manual_disconnect
                 /\ (pc["shut"] # "idle" /\ pc'["shut"] = "idle")
                        => pc["shut"] = "s_close"
                 /\ pc'["shut"] = "idle" => (client' = 0 /\ ~is_connected')]_vars

(* Properties of the parser *)

\* C13: handle_message raises for no frame, and a frame that cannot be
\* decoded (truncated, empty, of no known kind, with malformed or error
\* text, with assist bytes that are no digits) leaves the Bike State, the
\* packet counter, the VIN and the protocol version as they were.
HandleMessageNeverRaises ==
    /\ [](~ret.raised)
    /\ [][call'.frame \in { SubSeq(BatteryFrame17, 1, 6) \o TxtHashAt,
                            SubSeq(MotorFrame, 1, 6) \o TxtHashAt,
                            SubSeq(EbmFrame, 1, 6) \o TxtHashAt,
                            BadAssistFrame,
                            VinFrame(TxtER),
                            VinFrame(Fill(16, 65)),
                            VinR0Frame(Fill(16, 66)),
                            ProtocolFrame(TxtER),
                            ProtocolFrame(<<>>),
                            <<1, 2, 3>>,
                            <<>> }
              => UNCHANGED <<state, battery_packet_counter, vin,
                             protocol_version>>]_vars

\* C14: handling a frame changes no slot of the Bike State but the ones
\* its kind owns: battery_primary and battery_secondary for a battery frame,
\* motor for a motor frame, assist for an assist frame, ebm for an ebm
\* frame, none for a frame of any other kind.
FrameChangesOwnSlotsOnly ==
    [][LET kind == recognize_message_type(call'.frame)
           owned == CASE kind = "battery" ->
                           {"battery_primary", "battery_secondary"}
                      [] kind = "motor"  -> {"motor"}
                      [] kind = "assist" -> {"assist"}
                      [] kind = "ebm"    -> {"ebm"}
                      [] OTHER           -> {}
       IN  \A slot \in Slots \ owned : state'[slot] = state[slot]]_vars

\* A motor frame has been handled with every slot already filled.
MotorFrameAmongFilledSlots ==
    /\ call = [fn |-> "handle_message", frame |-> MotorFrame]
    /\ \A slot \in Slots : state[slot] # None

\* C15: for a battery frame of 19 bytes or more, whatever the unsigned
\* 16-bit big-endian value combined at offset 15 (0..65535), the reading
\* parse_battery_message returns has cycles = combined mod 10000, and the
\* frame is treated as of battery combined div 10000: written to
\* battery_primary and counted exactly when that is 1, written to
\* battery_secondary with the counter reset exactly when that is 2.
BatteryFieldSplit ==
    [][(call.fn = "parse_battery_message" /\ Len(call.frame) >= 19)
          => LET combined == call.frame[16] * 256 + call.frame[17]
                 battery_number == combined \div 10000
             IN  /\ ~ret'.raised
                 /\ ret'.value # None
                 /\ ret'.value[1].cycles = Some(combined % 10000)
                 /\ battery_number = 1
                      <=> /\ state'["battery_primary"] = ret'.value
                          /\ battery_packet_counter' = battery_packet_counter + 1
                 /\ battery_number = 2
                      <=> /\ state'["battery_secondary"] = ret'.value
                          /\ battery_packet_counter' = 0]_vars

\* C16: over any sequence of frames, a primary-battery frame (battery 1,
\* or no combined field) adds one to the packet counter, a secondary-battery
\* frame (battery 2) sets it to zero and no other frame changes it; once
\* four primary frames have come with no secondary one in between,
\* battery_secondary is the zeroed reading and stays so with each further
\* primary frame; and battery_secondary becomes the zeroed reading only
\* with the fourth or a later primary frame after a secondary one.
SecondaryZeroedAfterFourPrimaries ==
    /\ [](battery_packet_counter >= 4
             => state["battery_secondary"] = Some(ZeroBattery))
    /\ [][LET m == call'.frame
              parsed == recognize_message_type(m) = "battery" /\ Len(m) >= 17
              battery_number ==
                  IF Len(m) >= 19 THEN (m[16] * 256 + m[17]) \div 10000 ELSE 1
          IN  CASE parsed /\ battery_number = 1 ->
                     /\ battery_packet_counter' = battery_packet_counter + 1
                     /\ battery_packet_counter' >= 4
                            => state'["battery_secondary"] = Some(ZeroBattery)
                [] parsed /\ battery_number = 2 ->
                     battery_packet_counter' = 0
                [] OTHER ->
                     /\ battery_packet_counter' = battery_packet_counter
                     /\ state'["battery_secondary"] = state["battery_secondary"]
         ]_vars

\* C17: over any sequence of frames, a VIN that is set is never absent
\* again and neither is a protocol version; a frame that is no well-formed
\* VIN frame (malformed, "ER", of another kind) leaves the VIN as it was,
\* and a frame that is no well-formed protocol frame leaves the protocol
\* version as it was.
VinAndProtocolSticky ==
    [][/\ vin # None => vin' # None
       /\ protocol_version # None => protocol_version' # None
       /\ call'.frame \notin {VinFrame(Fill(17, 65)), VinR0Frame(Fill(17, 66))}
             => vin' = vin
       /\ call'.frame # ProtocolFrame(Version102)
             => protocol_version' = protocol_version]_vars

\* "$s$P#ER#@" has been handled after a VIN and a protocol version were
\* stored, and both are still there.
ErrorFrameAfterValidOnes ==
    /\ call = [fn |-> "handle_message", frame |-> ProtocolFrame(TxtER)]
    /\ protocol_version = Some(Version102)
    /\ vin = Some(Fill(17, 65))

\* C18: parse_protocol_message on a frame whose text is "$s$P#", a
\* version, "#@": when the version is "ER" or empty it returns None and
\* protocol_version is as before; for any other version it returns that
\* version, character for character, and protocol_version is that version.
\* The text of a frame of ASCII bytes is the bytes themselves.
ProtocolVersionVerbatim ==
    [][call.fn = "parse_protocol_message"
          => LET text == IF \A i \in 1..Len(call.frame) : call.frame[i] < 128
                         THEN call.frame
                         ELSE Utf8Ignore(call.frame)
                 n == Len(text)
                 version == SubSeq(text, 6, n - 2)
             IN  (/\ n >= 7
                  /\ SubSeq(text, 1, 5) = TxtProtoPrefix
                  /\ SubSeq(text, n - 1, n) = TxtHashAt)
                     => /\ ~ret'.raised
                        /\ IF version = <<>> \/ version = TxtER
                           THEN /\ ret'.value = None
                                /\ protocol_version' = protocol_version
                           ELSE /\ ret'.value = Some(version)
                                /\ protocol_version' = Some(version)]_vars

\* "$s$P#ER#@" was parsed by a parser that had a version: it returned None
\* and the version is still stored.
ErrorVersionReturnedNone ==
    /\ call = [fn |-> "parse_protocol_message", frame |-> ProtocolFrame(TxtER)]
    /\ ~ret.pending
    /\ ret.value = None
    /\ protocol_version = Some(Version102)

\* C19: parse_vin_message returns a VIN and stores it exactly when the text
\* is "$s$V#", 17 characters, "#@" (the VIN is those 17 characters) or is
\* 20 characters that start with "R0" and end with "@" (the VIN is the 17
\* between); for every other text it returns None and the stored VIN is as
\* before.
VinExactlyWhenShaped ==
    [][call.fn = "parse_vin_message"
          => LET text == IF \A i \in 1..Len(call.frame) : call.frame[i] < 128
                         THEN call.frame
                         ELSE Utf8Ignore(call.frame)
                 n == Len(text)
                 standard == /\ n = 24
                             /\ SubSeq(text, 1, 5) = TxtVinPrefix
                             /\ SubSeq(text, 23, 24) = TxtHashAt
                 alternative == /\ n = 20
                                /\ SubSeq(text, 1, 2) = TxtR0
                                /\ text[20] = 64
                 serial17 == IF standard THEN SubSeq(text, 6, 22)
                             ELSE SubSeq(text, 3, 19)
             IN  /\ ~ret'.raised
                 /\ IF standard \/ alternative
                    THEN ret'.value = Some(serial17) /\ vin' = Some(serial17)
                    ELSE ret'.value = None /\ vin' = vin]_vars

\* "R0", 17 characters, "@" was parsed: the 17 characters were returned and
\* are the stored VIN.
AlternativeVinStored ==
    /\ call = [fn |-> "parse_vin_message", frame |-> VinR0Frame(Fill(17, 65))]
    /\ ret.value = Some(Fill(17, 65))
    /\ vin = Some(Fill(17, 65))

\* C20: parse_assist_level_message chooses by the length of the frame
\* alone: of 10 bytes, it returns and stores min, max and current, the
\* digit values of the characters at offsets 5, 6 and 7; of 9 bytes, it
\* returns and stores sync_result, the two characters at offsets 5 and 6,
\* and success, whether they are "OK"; of any other length, it returns None
\* and the assist slot is as before.
AssistByLengthOnly ==
    [][call.fn = "parse_assist_level_message"
          => LET m == call.frame
             IN  /\ ~ret'.raised
                 /\ CASE Len(m) = 10 ->
                           /\ ret'.value = Some([min |-> m[6] - 48,
                                                 max |-> m[7] - 48,
                                                 current |-> m[8] - 48])
                           /\ \A i \in 6..8 : m[i] - 48 \in 0..9
                           /\ state'["assist"] = ret'.value
                      [] Len(m) = 9 ->
                           /\ ret'.value =
                                  Some([sync_result |-> <<m[6], m[7]>>,
                                        success |-> <<m[6], m[7]>> = TxtOK])
                           /\ state'["assist"] = ret'.value
                      [] OTHER ->
                           /\ ret'.value = None
                           /\ state'["assist"] = state["assist"]]_vars

\* C21: for every frame that starts with "$" and ends with "#@", with main
\* the byte after "$" and sub the byte at offset 3 (none in a frame of
\* three bytes), recognize_message_type returns the kind of the pair
\* (main, sub) in the fixed mapping ("b" with any sub is battery; "m" with
\* "Z", "A", "M", "R" is motor, assist, engine_maps, reset_trip; "j" with
\* "Z" is ebm; "s" with "V", "P" is vin, protocol; "d" with "I", "R", "E",
\* "Z", "C", "V", "T" is diagnosis_init, diagnosis_read, diagnosis_end,
\* security_session, coding_device, write_vin, status; "M" with "M" is
\* engine_maps; "i" with "C" is calibrate) and unknown for every other pair.
DelimitedKindByMainAndSub ==
    [][call.fn = "recognize_message_type"
          => LET m == call.frame
                 n == Len(m)
                 main == m[2]
                 sub == IF n > 3 THEN m[4] ELSE 0
                 mapping ==
                     {<<109, 90, "motor">>, <<109, 65, "assist">>,
                      <<109, 77, "engine_maps">>, <<109, 82, "reset_trip">>,
                      <<106, 90, "ebm">>, <<115, 86, "vin">>,
                      <<115, 80, "protocol">>, <<100, 73, "diagnosis_init">>,
                      <<100, 82, "diagnosis_read">>,
                      <<100, 69, "diagnosis_end">>,
                      <<100, 90, "security_session">>,
                      <<100, 67, "coding_device">>, <<100, 86, "write_vin">>,
                      <<100, 84, "status">>, <<77, 77, "engine_maps">>,
                      <<105, 67, "calibrate">>}
                 kinds == IF main = 98 THEN {"battery"}
                          ELSE {e[3] : e \in {x \in mapping :
                                                 x[1] = main /\ x[2] = sub}}
             IN  (n >= 3 /\ m[1] = 36 /\ m[n - 1] = 35 /\ m[n] = 64)
                     => /\ ~ret'.raised
                        /\ ret'.value \in
                               {Some(k) : k \in IF kinds = {} THEN {"unknown"}
                                                ELSE kinds}]_vars

\* C22: for every frame that does not start with "$" and ends with "@",
\* recognize_message_type returns the kind of the first byte alone ("T" is
\* status, "C" coding_device, "R" vin, "Z" security_challenge, any other
\* unknown); for every frame that neither is of that shape nor starts with
\* "$" and ends with "#@", the empty frame among them, it returns unknown;
\* and it raises for none of them.
TerminalKindByFirstByte ==
    [][call.fn = "recognize_message_type"
          => LET m == call.frame
                 n == Len(m)
                 terminal == n >= 1 /\ m[1] # 36 /\ m[n] = 64
                 delimited == n >= 3 /\ m[1] = 36 /\ m[n - 1] = 35 /\ m[n] = 64
             IN  /\ ~ret'.raised
                 /\ terminal
                      => ret'.value =
                             Some(CASE m[1] = 84 -> "status"
                                    [] m[1] = 67 -> "coding_device"
                                    [] m[1] = 82 -> "vin"
                                    [] m[1] = 90 -> "security_challenge"
                                    [] OTHER     -> "unknown")
                 /\ (~terminal /\ ~delimited)
                      => ret'.value = Some("unknown")]_vars

\* C23: read16, read24 and read32 return the unsigned value whose base-256
\* digits, the most significant first, are the 2, 3 or 4 bytes that begin
\* at the offset, and read_unsigned_byte returns the value of the byte, in
\* 0..255, whatever the bytes are.  (A 32-bit value is hi * 65536 + lo.)
ReadsAreBigEndian ==
    [][call.fn \in {"read16", "read24", "read32", "read_unsigned_byte"}
          => LET d == call.frame
                 n == Len(d)
                 v == ret'.value[1]
             IN  /\ ~ret'.raised
                 /\ ret'.value # None
                 /\ CASE call.fn = "read16" ->
                           /\ v \in 0..65535
                           /\ v \div 256 = d[n - 1]
                           /\ v % 256 = d[n]
                      [] call.fn = "read24" ->
                           /\ v \in 0..16777215
                           /\ v \div 65536 = d[n - 2]
                           /\ (v \div 256) % 256 = d[n - 1]
                           /\ v % 256 = d[n]
                      [] call.fn = "read32" ->
                           /\ v.hi \in 0..65535
                           /\ v.lo \in 0..65535
                           /\ v.hi \div 256 = d[n - 3]
                           /\ v.hi % 256 = d[n - 2]
                           /\ v.lo \div 256 = d[n - 1]
                           /\ v.lo % 256 = d[n]
                      [] OTHER ->
                           v \in 0..255 /\ v = d[1]]_vars

\* read32 has read 80 00 00 01 at offset 3: 32768 * 65536 + 1.
Read32OfHighBit ==
    /\ call = [fn |-> "read32", frame |-> <<255, 1, 2, 128, 0, 0, 1>>]
    /\ ret.value = Some([hi |-> 32768, lo |-> 1])

\* C24: the keys of the decoder's Bike State are its five slots in every
\* state, and no step of a poll tick changes the value of a slot or the set
\* of keys: the rssi the tick attaches is in what it returns only.
PollTickLeavesDecoderState ==
    /\ [](DOMAIN state = Slots)
    /\ [][PollStep => /\ DOMAIN state' = DOMAIN state
                      /\ \A k \in Slots : state'[k] = state[k]]_vars

\* C25: for every ebm frame of 17 bytes or more, parse_ebm_message returns
\* and stores in the ebm slot: odometry, the unsigned 32-bit big-endian
\* value at offset 5 over 10000; autonomy, the one at offset 9 over 10000;
\* is_light_on, true exactly when the byte at offset 13 is 1; status, the
\* byte at offset 14.  (A 32-bit value is hi * 65536 + lo.)
EbmFieldsDecoded ==
    [][(call.fn = "parse_ebm_message" /\ Len(call.frame) >= 17)
          => LET m == call.frame
                 u32(i) == [hi |-> m[i + 1] * 256 + m[i + 2],
                            lo |-> m[i + 3] * 256 + m[i + 4]]
             IN  /\ ~ret'.raised
                 /\ ret'.value =
                        Some([odometry |-> [num |-> u32(5), den |-> 10000],
                              autonomy |-> [num |-> u32(9), den |-> 10000],
                              is_light_on |-> (m[14] = 1),
                              status |-> m[15]])
                 /\ state'["ebm"] = ret'.value]_vars

\* The recorded ebm frame was parsed: 56af68 is 86 * 65536 + 44904.
RecordedEbmFrameParsed ==
    /\ call = [fn |-> "parse_ebm_message", frame |-> EbmFrame]
    /\ state["ebm"] # None
    /\ state["ebm"][1].odometry.num = [hi |-> 86, lo |-> 44904]

SwitchShowsDesiredState ==
    /\ is_on = TRUE
    /\ [](is_on <=> ~manual_disconnect)
    /\ [][ReconnectStep
              => /\ (pc["recon"] \notin ConnectPcs /\ pc'["recon"] \in ConnectPcs)
                        => is_on'
                 /\ pc["recon"] \in ConnectPcs \cup {"raised"}
                        => is_on' = is_on]_vars

\* The connect attempt of a turn_on has failed after the open, and the
\* switch is on although is_connected is false.
SwitchOnAfterFailedAttempt ==
    /\ pc["recon"] = "raised"
    /\ is_on
    /\ ~is_connected
    /\ client # 0

\* C28: in a _connect, start_notify is called only when the open has
\* returned, the VIN request is written only when start_notify has
\* returned, the pause begins only when that write has returned and the
\* protocol request is written only after the pause; and is_connected
\* becomes true only in the step in which the protocol write returns
\* without an error.
ConnectStepsInOrder ==
    [][/\ \A t \in {"poll", "recon"} :
            /\ (pc'[t] = "c_notify" /\ pc[t] # "c_notify") => pc[t] = "c_open"
            /\ (pc'[t] = "c_vin" /\ pc[t] # "c_vin") => pc[t] = "c_notify"
            /\ (pc'[t] = "c_pause" /\ pc[t] # "c_pause") => pc[t] = "c_vin"
            /\ (pc'[t] = "c_proto" /\ pc[t] # "c_proto") => pc[t] = "c_pause"
       /\ (is_connected' /\ ~is_connected)
            => \E t \in {"poll", "recon"} :
                   pc[t] = "c_proto" /\ pc'[t] = "idle"]_vars

\* A poll tick's _connect has gone through all its steps: the tick has
\* returned connected, with a live subscribed session held.
TickConnectedThroughAllSteps ==
    /\ last_tick = "connected"
    /\ is_connected
    /\ client # 0
    /\ client \in notifying
    /\ \A t \in Tasks : pc[t] = "idle"

\* C29: while async_disconnect, async_shutdown, async_reconnect or the
\* cleanup of _connect is suspended in an awaited teardown call on a
\* session, self._client is not that session; and the run that enters a
\* teardown leaves self._client None before its first await.
HandleClearedBeforeTeardownAwaits ==
    /\ [](\A t \in Tasks :
            pc[t] \in {"d_write", "d_pause", "d_unsub", "d_close",
                       "s_write", "s_pause", "s_unsub", "s_close",
                       "r_olddisc", "c_olddisc"}
                => (loc[t] # 0 /\ client # loc[t]))
    /\ [][\A t \in Tasks :
            (/\ pc[t] \in {"idle", "r_cooldown"}
             /\ pc'[t] \in {"d_write", "s_write", "r_olddisc", "c_olddisc"})
                => client' = 0]_vars

\* A manual disconnect is suspended in stop_notify on the session it took,
\* while a poll tick that ran in between has installed another session.
TickRanDuringTeardown ==
    /\ pc["disc"] = "d_unsub"
    /\ pc["poll"] \in ConnectPcs
    /\ client # 0
    /\ client # loc["disc"]

\* C30: when _connect or async_reconnect finds a client at its start and
\* is suspended closing it, the teardown calls it has issued on that
\* session end with stop_notify followed by disconnect.
StaleCleanupUnsubscribesThenCloses ==
    \A t \in {"poll", "recon"} :
        pc[t] \in {"c_olddisc", "r_olddisc"}
            => /\ Len(tlog[t]) >= 2
               /\ tlog[t][Len(tlog[t]) - 1] = "unsubscribe"
               /\ tlog[t][Len(tlog[t])] = "close"

\* C31: whenever no operation of the coordinator is in progress and
\* is_connected is false, self._client is not an open session.
NoOpenSessionWhenDisconnected ==
    ((\A t \in Tasks : pc[t] = "idle") /\ ~is_connected)
        => (client = 0 \/ link[client] # "live")

\* C32: parse_battery_message on a frame of 17 bytes or more: with battery
\* number 2 (combined field 20000..29999) the counter becomes zero and the
\* reading is written to battery_secondary, no other slot changing; with
\* battery number 1 (combined field 10000..19999) the counter grows by one
\* and the reading is written to battery_primary; a frame of 17 or 18 bytes
\* is handled as battery number 1 and its reading has no cycles.
BatteryRoutedByNumber ==
    [][(call.fn = "parse_battery_message" /\ Len(call.frame) >= 17)
          => LET long == Len(call.frame) >= 19
                 combined == IF long
                             THEN call.frame[16] * 256 + call.frame[17]
                             ELSE 10000
                 battery_number == combined \div 10000
             IN  /\ ~ret'.raised
                 /\ ret'.value # None
                 /\ ~long => ret'.value[1].cycles = None
                 /\ battery_number = 2
                      => /\ battery_packet_counter' = 0
                         /\ state' = [state EXCEPT
                                         !["battery_secondary"] = ret'.value]
                 /\ battery_number = 1
                      => /\ battery_packet_counter' = battery_packet_counter + 1
                         /\ state'["battery_primary"] = ret'.value
                         /\ \A slot \in {"motor", "assist", "ebm"} :
                                state'[slot] = state[slot]]_vars

\* An 18-byte battery frame has been parsed by a parser that had counted
\* three primary frames: it was counted as the fourth.
ShortBatteryFrameCountedAsPrimary ==
    /\ call.fn = "parse_battery_message"
    /\ Len(call.frame) = 18
    /\ ~ret.pending
    /\ battery_packet_counter = 4
    /\ state["battery_primary"] = ret.value

\* C33: parse_battery_message on a frame of fewer than 17 bytes,
\* parse_motor_message on one of fewer than 18 and parse_ebm_message on one
\* of fewer than 17 return None without raising and leave the parser as it
\* was: every slot of state, the packet counter, vin and protocol_version
\* (the parser has no other attribute for a later frame to depend on).
ShortFramesIgnored ==
    [][(\/ call.fn = "parse_battery_message" /\ Len(call.frame) < 17
        \/ call.fn = "parse_motor_message" /\ Len(call.frame) < 18
        \/ call.fn = "parse_ebm_message" /\ Len(call.frame) < 17)
          => /\ ret' = NoReturn
             /\ UNCHANGED <<state, battery_packet_counter, vin,
                            protocol_version>>]_vars

\* A motor frame of 17 bytes has been given to a parser that held readings:
\* it returned None.
SeventeenByteMotorFrameParsed ==
    /\ call.fn = "parse_motor_message"
    /\ Len(call.frame) = 17
    /\ ret = NoReturn
    /\ state["battery_primary"] # None

\* C34: for every frame whose bytes start with "$" and end with "#@" and
\* whose bytes at offsets 1 and 3 are ASCII, recognize_message_type returns
\* the kind that its mapping gives to the byte at offset 1 as main type and
\* the byte at offset 3 (none in a frame of three bytes) as sub type,
\* whatever bytes, ASCII or not, are at the other offsets.
RawOffsetsOneAndThreeInspected ==
    [][call.fn = "recognize_message_type"
          => LET m == call.frame
                 n == Len(m)
             IN  (/\ n >= 3 /\ m[1] = 36 /\ m[n - 1] = 35 /\ m[n] = 64
                  /\ m[2] < 128
                  /\ n > 3 => m[4] < 128)
                     => ret'.value =
                            Some(DelimitedType(m[2],
                                               IF n > 3 THEN m[4] ELSE 0))]_vars

\* C35: when async_turn_on starts with the manual-disconnect flag set, the
\* state it writes before it calls async_reconnect is "on".
TurnOnPublishesOnAtOnce ==
    [][(Reconnect /\ manual_disconnect) => written_state = "on"]_vars

\* C36: in every reachable state, whatever the interleaving of the poll
\* tick, async_disconnect, async_reconnect and async_shutdown at their
\* awaits, is_connected implies that self._client is a session.
ConnectedImpliesHandle == is_connected => client # 0

\* C37: after any sequence of frames handled by one parser, a packet
\* counter of 4 or more implies that battery_secondary is the zeroed
\* reading.
CounterAtFourMeansSecondaryZeroed ==
    battery_packet_counter >= 4
        => state["battery_secondary"] = Some(ZeroBattery)

\* The parser has handled a primary-battery frame that left the counter at
\* 4 or more, battery_primary holding a reading and battery_secondary the
\* zeroed one.
FourthPrimaryFrameHandled ==
    /\ call = [fn |-> "handle_message", frame |-> BatteryFrame(39, 52)]
    /\ battery_packet_counter >= 4
    /\ state["battery_primary"] # None
    /\ state["battery_secondary"] = Some(ZeroBattery)

\* C38: parse_battery_message on a frame of 19 bytes or more whose combined
\* field is in 1..9999 or is 30000 or more (a battery number that is neither
\* 1 nor 2) returns a reading and leaves battery_primary, battery_secondary
\* and the packet counter as they were.
OtherBatteryNumberChangesNothing ==
    [][(call.fn = "parse_battery_message" /\ Len(call.frame) >= 19)
          => LET combined == call.frame[16] * 256 + call.frame[17]
             IN  (combined \in 1..9999 \/ combined >= 30000)
                     => /\ ~ret'.raised
                        /\ ret'.value # None
                        /\ state'["battery_primary"] = state["battery_primary"]
                        /\ state'["battery_secondary"]
                               = state["battery_secondary"]
                        /\ battery_packet_counter' = battery_packet_counter]_vars

\* A frame of battery number 3 (combined field 30000) has been parsed by a
\* parser that held readings of both batteries: it returned a reading.
BatteryThreeFrameParsed ==
    /\ call = [fn |-> "parse_battery_message", frame |-> BatteryFrame(117, 48)]
    /\ ~ret.pending
    /\ ret.value # None
    /\ state["battery_primary"] # None
    /\ state["battery_primary"] # ret.value
    /\ state["battery_secondary"] # None

====
